---- MODULE Spec2Model ----
(***************************************************************************)
(* The Storage base class of prefect/storage/base.py as a state machine.   *)
(*                                                                         *)
(* One Storage instance of one concrete subclass is followed from its      *)
(* construction through any sequence of the base class's operations. The   *)
(* process-wide configuration value flows.defaults.storage                 *)
(* .add_default_labels changes at any time. Python's optional values are   *)
(* records [none, v]; a list is a sequence; the order in which list(set)   *)
(* enumerates a set is a nondeterministic choice.                          *)
(***************************************************************************)
EXTENDS Integers, Sequences, FiniteSets, TLC

VARIABLES
    config,              \* config.flows.defaults.storage.add_default_labels
    configReads,         \* how many times the instance's code has read config
    cls,                 \* the concrete class of the last instantiation
    constructed,         \* TRUE once an instance exists
    result,              \* self.result
    secrets,             \* self.secrets
    stored_as_script,    \* self.stored_as_script
    _labels,             \* self._labels
    add_default_labels,  \* self.add_default_labels
    _flows,              \* self._flows, present only if the subclass keeps one
    built,               \* whether build() has completed on the instance
    op,                  \* the last operation invoked
    args,                \* the arguments it was invoked with
    exc,                 \* the exception it raised, "" if it returned
    ret,                 \* the list it returned (labels, default_labels)
    lastLabels,          \* set of labels read since the last state change,
                         \* and whether it has been read more than once
    checkerCalls         \* calls of _healthcheck.result_check it made

vars == <<config, configReads, cls, constructed, result, secrets,
          stored_as_script, _labels, add_default_labels, _flows, built,
          op, args, exc, ret, lastLabels, checkerCalls>>

fields == <<result, secrets, stored_as_script, _labels, add_default_labels,
            _flows>>

----------------------------------------------------------------------------
(* Bounds of the explored inputs *)

MaxLabels == 2
MaxFlows == 2

LabelAlphabet == {"a", "b"}
DefaultAlphabet == {"b", "c"}
SecretLists == {<<>>, <<"s1">>}
Results == {"None", "r"}

----------------------------------------------------------------------------
(* Python values *)

NoneList == [none |-> TRUE, v |-> <<>>]
SomeList(s) == [none |-> FALSE, v |-> s]
NoneBool == [none |-> TRUE, v |-> FALSE]
SomeBool(b) == [none |-> FALSE, v |-> b]

SeqsUpTo(S, n) == UNION {[1..k -> S] : k \in 0..n}
OptLists(S, n) == {NoneList} \cup {SomeList(s) : s \in SeqsUpTo(S, n)}
OptBools == {NoneBool} \cup {SomeBool(b) : b \in BOOLEAN}

\* set(xs)
ToSet(s) == {s[i] : i \in DOMAIN s}

\* list(S): every element once, in an order the set's hashing decides
ListsOf(S) ==
    {s \in [1..Cardinality(S) -> S] : ToSet(s) = S}

NoDuplicates(s) == \A i, j \in DOMAIN s : s[i] = s[j] => i = j

Flows == [name : 1..MaxFlows, compatible : BOOLEAN]
NoFlow == [name |-> 0, compatible |-> TRUE]
Locations == 0..MaxFlows

NoAttr == [has |-> FALSE, d |-> <<>>]
EmptyDict == [has |-> TRUE, d |-> <<>>]

\* dict.values()
values(d) == {d[k] : k \in DOMAIN d}

NoArgs ==
    [result |-> "None", secrets |-> NoneList, labels |-> NoneList,
     add_default_labels |-> NoneBool, stored_as_script |-> FALSE,
     flow |-> NoFlow, flow_location |-> 0]

----------------------------------------------------------------------------
(* Concrete subclasses and constructor arguments *)

MethodNames == {"add_flow", "__contains__", "build"}

\* A concrete subclass: the methods it implements, its default_labels
\* override (none: inherited from Storage) and whether its constructor
\* creates the _flows registry.
Class(m, dl, t) == [methods |-> m, default_labels |-> dl, tracks_flows |-> t]

LabelClasses ==
    {Class(MethodNames, dl, FALSE) : dl \in OptLists(DefaultAlphabet, MaxLabels)}
RegistryClasses ==
    {Class(MethodNames, NoneList, t) : t \in BOOLEAN}
PartialClasses ==
    {Class(m, NoneList, FALSE) : m \in (SUBSET MethodNames) \ {MethodNames}}

LabelArgs ==
    {[NoArgs EXCEPT !.labels = l, !.add_default_labels = b] :
        l \in OptLists(LabelAlphabet, MaxLabels), b \in OptBools}
AttrArgs ==
    {[NoArgs EXCEPT !.result = r, !.secrets = s, !.labels = l,
                    !.stored_as_script = x] :
        r \in Results,
        s \in {NoneList} \cup {SomeList(q) : q \in SecretLists},
        l \in OptLists(LabelAlphabet, 1),
        x \in BOOLEAN}

\* The instantiations explored: every label input with fixed other
\* arguments, every other argument with short labels, and the registry and
\* incomplete subclasses with all arguments omitted.
CtorInputs ==
    (LabelClasses \X LabelArgs)
    \cup ({Class(MethodNames, NoneList, FALSE)} \X AttrArgs)
    \cup ((RegistryClasses \cup PartialClasses) \X {NoArgs})

----------------------------------------------------------------------------
(* Storage *)

\* add_flow left without its @abstractmethod decorator.
abstractmethods_without_add_flow == {"__contains__", "build"}

\* The methods declared with @abstractmethod.
abstractmethods == {"add_flow", "__contains__", "build"}

\* ABCMeta: a class with an abstract method left cannot be instantiated.
can_instantiate(c) == abstractmethods \subseteq c.methods

\* The argument stored as given, without `or []`.
or_empty_list_unnormalised(x) == x

\* `x or []`
or_empty_list(x) == IF x.none \/ Len(x.v) = 0 THEN SomeList(<<>>) ELSE x

\* The subclass constructor's own part: the registry of tracked flows.
subclass_init(c) == IF c.tracks_flows THEN EmptyDict ELSE NoAttr

\* Storage.default_labels, or the subclass's override of it.
default_labels ==
    IF cls.default_labels.none THEN <<>> ELSE cls.default_labels.v

\* labels without the update by the default labels.
labels_without_defaults ==
    IF ~add_default_labels
    THEN {_labels.v}
    ELSE ListsOf(ToSet(_labels.v))

\* labels as the concatenation its docstring speaks of.
labels_concatenated ==
    IF ~add_default_labels
    THEN {_labels.v}
    ELSE {_labels.v \o default_labels}

\* labels deciding on the configuration's current value.
labels_rereading_config ==
    IF ~config
    THEN {_labels.v}
    ELSE ListsOf(ToSet(_labels.v) \cup ToSet(default_labels))

\* Storage.labels: the lists a read may return.
labels ==
    IF ~add_default_labels
    THEN {_labels.v}
    ELSE ListsOf(ToSet(_labels.v) \cup ToSet(default_labels))

\* _healthcheck.result_check(flows): fails when a flow's result
\* configuration is incompatible with the storage.
result_check(flows) ==
    IF \E f \in flows : ~f.compatible THEN "HealthCheckError" ELSE ""

NoLabelsRead == [has |-> FALSE, again |-> FALSE, v |-> {}]

Returns(o, a, e, r, cc) ==
    /\ op' = o
    /\ args' = a
    /\ exc' = e
    /\ ret' = r
    /\ checkerCalls' = cc

Init ==
    /\ config \in BOOLEAN
    /\ configReads = 0
    /\ cls = Class(MethodNames, NoneList, FALSE)
    /\ constructed = FALSE
    /\ result = "None"
    /\ secrets = NoneList
    /\ stored_as_script = FALSE
    /\ _labels = NoneList
    /\ add_default_labels = FALSE
    /\ _flows = NoAttr
    /\ built = FALSE
    /\ op = ""
    /\ args = NoArgs
    /\ exc = ""
    /\ ret = <<>>
    /\ lastLabels = NoLabelsRead
    /\ checkerCalls = <<>>

\* The configuration value changes under the running process.
SetConfig ==
    /\ config' = ~config
    /\ Returns("set_config", NoArgs, "", <<>>, <<>>)
    /\ UNCHANGED <<configReads, cls, constructed, fields, built, lastLabels>>

\* Instantiating concrete class c with arguments a.
__init__(c, a) ==
    /\ ~constructed
    /\ cls' = c
    /\ IF ~can_instantiate(c)
       THEN /\ Returns("__init__", a, "TypeError", <<>>, <<>>)
            /\ UNCHANGED <<config, configReads, constructed, fields, built,
                           lastLabels>>
       ELSE /\ constructed' = TRUE
            /\ result' = a.result
            /\ secrets' = or_empty_list(a.secrets)
            /\ stored_as_script' = a.stored_as_script
            /\ _labels' = or_empty_list(a.labels)
            /\ IF a.add_default_labels.none
               THEN /\ add_default_labels' = config
                    /\ configReads' = configReads + 1
               ELSE /\ add_default_labels' = a.add_default_labels.v
                    /\ configReads' = configReads
            /\ _flows' = subclass_init(c)
            /\ Returns("__init__", a, "", <<>>, <<>>)
            /\ UNCHANGED <<config, built, lastLabels>>

\* labels keeping the merged list in self._labels.
get_labels_caching ==
    /\ constructed
    /\ \E r \in labels :
        /\ Returns("labels", NoArgs, "", r, <<>>)
        /\ lastLabels' = [has |-> TRUE, again |-> lastLabels.has,
                        v |-> ToSet(r)]
        /\ _labels' = SomeList(r)
    /\ UNCHANGED <<config, configReads, cls, constructed, result, secrets,
                   stored_as_script, add_default_labels, _flows, built>>

\* Reading the labels property.
get_labels ==
    /\ constructed
    /\ \E r \in labels :
        /\ Returns("labels", NoArgs, "", r, <<>>)
        /\ lastLabels' = [has |-> TRUE, again |-> lastLabels.has,
                        v |-> ToSet(r)]
    /\ UNCHANGED <<config, configReads, cls, constructed, fields, built>>

\* Reading the default_labels property.
get_default_labels ==
    /\ constructed
    /\ Returns("default_labels", NoArgs, "", default_labels, <<>>)
    /\ UNCHANGED <<config, configReads, cls, constructed, fields, built,
                   lastLabels>>

\* Reading the name property.
get_name ==
    /\ constructed
    /\ Returns("name", NoArgs, "", <<>>, <<>>)
    /\ UNCHANGED <<config, configReads, cls, constructed, fields, built,
                   lastLabels>>

\* get_env_runner(flow_location)
get_env_runner(loc) ==
    /\ constructed
    /\ Returns("get_env_runner", [NoArgs EXCEPT !.flow_location = loc],
               "NotImplementedError", <<>>, <<>>)
    /\ UNCHANGED <<config, configReads, cls, constructed, fields, built,
                   lastLabels>>

\* get_flow with an empty body.
get_flow_silent(loc) ==
    /\ constructed
    /\ Returns("get_flow", [NoArgs EXCEPT !.flow_location = loc], "", <<>>,
               <<>>)
    /\ UNCHANGED <<config, configReads, cls, constructed, fields, built,
                   lastLabels>>

\* get_flow(flow_location)
get_flow(loc) ==
    /\ constructed
    /\ Returns("get_flow", [NoArgs EXCEPT !.flow_location = loc],
               "NotImplementedError", <<>>, <<>>)
    /\ UNCHANGED <<config, configReads, cls, constructed, fields, built,
                   lastLabels>>

\* serialize(): the schema's dump reads the instance.
serialize ==
    /\ constructed
    /\ Returns("serialize", NoArgs, "", <<>>, <<>>)
    /\ UNCHANGED <<config, configReads, cls, constructed, fields, built,
                   lastLabels>>

\* run_basic_healthchecks without the hasattr test.
run_basic_healthchecks_unguarded ==
    /\ constructed
    /\ IF ~_flows.has
       THEN Returns("run_basic_healthchecks", NoArgs, "AttributeError", <<>>,
                    <<>>)
       ELSE LET flows == values(_flows.d)
                outcome == result_check(flows)
            IN  Returns("run_basic_healthchecks", NoArgs, outcome, <<>>,
                        <<[flows |-> flows, outcome |-> outcome]>>)
    /\ UNCHANGED <<config, configReads, cls, constructed, fields, built,
                   lastLabels>>

\* run_basic_healthchecks catching the checker's failure.
run_basic_healthchecks_swallowing ==
    /\ constructed
    /\ IF ~_flows.has
       THEN Returns("run_basic_healthchecks", NoArgs, "", <<>>, <<>>)
       ELSE LET flows == values(_flows.d)
                outcome == result_check(flows)
            IN  Returns("run_basic_healthchecks", NoArgs, "", <<>>,
                        <<[flows |-> flows, outcome |-> outcome]>>)
    /\ UNCHANGED <<config, configReads, cls, constructed, fields, built,
                   lastLabels>>

\* run_basic_healthchecks()
run_basic_healthchecks ==
    /\ constructed
    /\ IF ~_flows.has
       THEN Returns("run_basic_healthchecks", NoArgs, "", <<>>, <<>>)
       ELSE LET flows == values(_flows.d)
                outcome == result_check(flows)
            IN  Returns("run_basic_healthchecks", NoArgs, outcome, <<>>,
                        <<[flows |-> flows, outcome |-> outcome]>>)
    /\ UNCHANGED <<config, configReads, cls, constructed, fields, built,
                   lastLabels>>

----------------------------------------------------------------------------
(* The required operations, as a concrete subclass implements them *)

\* The registry after flow f is registered under its name.
register(d, f) ==
    [n \in DOMAIN d \cup {f.name} |-> IF n = f.name THEN f ELSE d[n]]

\* add_flow(flow): registers the flow, whose location is its name; a flow
\* of an already registered name is replaced or rejected, as the backend
\* decides. Location 0 is one no add_flow returns.
add_flow(f, replace) ==
    /\ constructed
    /\ IF _flows.has /\ f.name \in DOMAIN _flows.d /\ ~replace
       THEN /\ Returns("add_flow", [NoArgs EXCEPT !.flow = f], "ValueError",
                       <<>>, <<>>)
            /\ UNCHANGED <<_flows, lastLabels>>
       ELSE /\ _flows' = IF _flows.has
                         THEN [_flows EXCEPT !.d = register(_flows.d, f)]
                         ELSE _flows
            /\ lastLabels' = NoLabelsRead
            /\ Returns("add_flow", [NoArgs EXCEPT !.flow = f], "", <<>>, <<>>)
    /\ UNCHANGED <<config, configReads, cls, constructed, result, secrets,
                   stored_as_script, _labels, add_default_labels, built>>

\* obj in storage
contains ==
    /\ constructed
    /\ Returns("__contains__", NoArgs, "", <<>>, <<>>)
    /\ UNCHANGED <<config, configReads, cls, constructed, fields, built,
                   lastLabels>>

\* A failed build() discarding the built state.
build_result_resetting(ok) == ok

\* The lifecycle state after a build() that succeeded (ok) or failed.
build_result(ok) == IF ok THEN TRUE ELSE built

\* build()
build(ok) ==
    /\ constructed
    /\ built' = build_result(ok)
    /\ lastLabels' = NoLabelsRead
    /\ Returns("build", NoArgs, IF ok THEN "" ELSE "BuildError", <<>>, <<>>)
    /\ UNCHANGED <<config, configReads, cls, constructed, fields>>

----------------------------------------------------------------------------

Next ==
    \/ SetConfig
    \/ \E i \in CtorInputs : __init__(i[1], i[2])
    \/ get_labels
    \/ get_default_labels
    \/ get_name
    \/ \E loc \in Locations : get_env_runner(loc)
    \/ \E loc \in Locations : get_flow(loc)
    \/ serialize
    \/ run_basic_healthchecks
    \/ \E f \in Flows, replace \in BOOLEAN : add_flow(f, replace)
    \/ contains
    \/ \E ok \in BOOLEAN : build(ok)

Spec == Init /\ [][Next]_vars

----------------------------------------------------------------------------
(* Properties *)

\* The default label set D of the instance's class.
ClassDefaults ==
    IF cls.default_labels.none THEN {} ELSE ToSet(cls.default_labels.v)

RequiredOps == {"add_flow", "__contains__", "build"}

ReadOps ==
    {"labels", "default_labels", "name", "__contains__", "serialize",
     "run_basic_healthchecks", "get_flow", "get_env_runner"}

\* C1: a read of labels yields, as a set, the union of the explicit labels
\* and the class's default labels when add_default_labels is true; when it
\* is false it yields exactly the explicit labels and no default label that
\* is not an explicit one.
C1_LabelsUnionOrExplicit ==
    op = "labels" =>
        IF add_default_labels
        THEN ToSet(ret) = ToSet(_labels.v) \cup ClassDefaults
        ELSE /\ ret = _labels.v
             /\ ToSet(ret) \cap (ClassDefaults \ ToSet(_labels.v)) = {}

C1_Witness ==
    /\ op = "labels"
    /\ add_default_labels
    /\ _labels.v = <<"a", "b">>
    /\ cls.default_labels = SomeList(<<"b", "c">>)
    /\ ToSet(ret) = {"a", "b", "c"}

\* C2 as stated: no label occurs more than once in the list a read of
\* labels returns, whatever the explicit labels and add_default_labels.
C2_LabelsNeverRepeat ==
    op = "labels" => NoDuplicates(ret)

\* C2 as amended: with add_default_labels true no label occurs more than
\* once in the result; with add_default_labels false the result repeats a
\* label exactly when the explicit label list does.
C2_LabelsRepeatOnlyUnmerged ==
    op = "labels" =>
        IF add_default_labels
        THEN NoDuplicates(ret)
        ELSE NoDuplicates(ret) <=> NoDuplicates(_labels.v)

C2_Witness ==
    /\ op = "labels"
    /\ add_default_labels
    /\ ~NoDuplicates(_labels.v)
    /\ ClassDefaults # {}
    /\ NoDuplicates(ret)

\* C3: add_default_labels is the explicit argument when one is given, with
\* no read of the configuration, and the configuration's value at
\* construction otherwise; afterwards no step changes it or reads the
\* configuration again, and a read of labels yields the set the previous
\* read yielded, however the configuration has changed in between.
C3_AddDefaultLabelsFixedAtConstruction ==
    /\ [](op = "__init__" /\ exc = "" =>
            IF args.add_default_labels.none
            THEN add_default_labels = config /\ configReads = 1
            ELSE /\ add_default_labels = args.add_default_labels.v
                 /\ configReads = 0)
    /\ [][constructed =>
            /\ add_default_labels' = add_default_labels
            /\ configReads' = configReads
            /\ (op' = "labels" /\ lastLabels.has =>
                    ToSet(ret') = lastLabels.v)]_vars

C3_Witness ==
    /\ op = "labels"
    /\ configReads = 1
    /\ config # add_default_labels
    /\ ~(ClassDefaults \subseteq ToSet(_labels.v))
    /\ lastLabels.again

\* C4: a backend starts unbuilt, becomes built only by a build() that
\* succeeds, never leaves the built state, is left as it was by a build()
\* that fails, and build() can be called in every state of an instance.
C4_UnbuiltToBuiltOnly ==
    /\ [](~constructed => ~built)
    /\ [](op = "__init__" => ~built)
    /\ [](op = "build" /\ exc = "" => built)
    /\ [](constructed => ENABLED build(TRUE))
    /\ [][/\ (built => built')
          /\ (~built /\ built' => op' = "build" /\ exc' = "")
          /\ (op' = "build" /\ exc' # "" => built' = built)]_vars

C4_Witness ==
    /\ op = "build"
    /\ exc # ""
    /\ ~built
    /\ _flows.has
    /\ DOMAIN _flows.d # {}

\* C5: run_basic_healthchecks() on an instance without a _flows attribute
\* returns without calling the checker and leaves the instance as it was,
\* built or not.
C5_HealthchecksNoRegistryNoOp ==
    /\ [](op = "run_basic_healthchecks" /\ ~_flows.has =>
            exc = "" /\ checkerCalls = <<>>)
    /\ [][op' = "run_basic_healthchecks" /\ ~_flows.has =>
            UNCHANGED <<cls, constructed, fields, built>>]_vars

C5_Witness ==
    /\ op = "run_basic_healthchecks"
    /\ ~_flows.has
    /\ built
    /\ exc = ""

\* C6: run_basic_healthchecks() on an instance with a _flows registry
\* calls the checker once, on exactly the registered flows, and raises
\* exactly what the checker raised, nothing when the checker returned.
C6_HealthchecksDelegate ==
    op = "run_basic_healthchecks" /\ _flows.has =>
        /\ Len(checkerCalls) = 1
        /\ checkerCalls[1].flows = {_flows.d[n] : n \in DOMAIN _flows.d}
        /\ exc = checkerCalls[1].outcome

C6_Witness ==
    /\ op = "run_basic_healthchecks"
    /\ _flows.has
    /\ Cardinality(DOMAIN _flows.d) = 2
    /\ \E n \in DOMAIN _flows.d : _flows.d[n].compatible
    /\ \E n \in DOMAIN _flows.d : ~_flows.d[n].compatible
    /\ exc = "HealthCheckError"

\* C7: get_env_runner and get_flow raise NotImplementedError for every
\* location, built or not, and leave the instance as it was.
C7_RetrievalUnsupported ==
    /\ [](op \in {"get_flow", "get_env_runner"} =>
            exc = "NotImplementedError")
    /\ [][op' \in {"get_flow", "get_env_runner"} =>
            UNCHANGED <<cls, constructed, fields, built>>]_vars

C7_Witness ==
    /\ op = "get_flow"
    /\ built
    /\ _flows.has
    /\ args.flow_location \in DOMAIN _flows.d
    /\ exc = "NotImplementedError"

\* C8: instantiating a class succeeds exactly when the class implements
\* add_flow, __contains__ and build; otherwise it raises TypeError, no
\* instance exists, and no operation is ever invoked on one.
C8_InstantiableIffAllRequired ==
    /\ constructed => RequiredOps \subseteq cls.methods
    /\ op = "__init__" =>
        /\ exc = "" <=> RequiredOps \subseteq cls.methods
        /\ exc = "" <=> constructed
        /\ exc # "" => exc = "TypeError"
    /\ op \notin {"", "__init__", "set_config"} => constructed

C8_Witness ==
    /\ op = "__init__"
    /\ cls.methods = {"build", "__contains__"}
    /\ exc = "TypeError"
    /\ ~constructed

\* C9: an instance's secrets and explicit labels are never None; an
\* omitted secrets or labels argument gives the empty list.
C9_SecretsAndLabelsNeverNone ==
    /\ constructed => ~secrets.none /\ ~_labels.none
    /\ op = "__init__" /\ exc = "" /\ args.secrets.none => secrets.v = <<>>
    /\ op = "__init__" /\ exc = "" /\ args.labels.none => _labels.v = <<>>

C9_Witness ==
    /\ op = "__init__"
    /\ constructed
    /\ args.secrets.none
    /\ args.labels.none
    /\ secrets = SomeList(<<>>)
    /\ _labels = SomeList(<<>>)

\* C10: on an instance not yet built, every operation other than add_flow
\* and build leaves result, secrets, stored_as_script, the explicit labels,
\* add_default_labels and the registry as they were, and a read of labels
\* yields the set the previous read yielded when no add_flow came between.
C10_OnlyAddFlowChangesState ==
    [][constructed /\ ~built /\ op' \in ReadOps =>
        /\ UNCHANGED <<result, secrets, stored_as_script, _labels,
                       add_default_labels, _flows>>
        /\ (op' = "labels" /\ lastLabels.has => ToSet(ret') = lastLabels.v)
      ]_vars

C10_Witness ==
    /\ op = "labels"
    /\ ~built
    /\ lastLabels.again
    /\ add_default_labels
    /\ ClassDefaults # {}
    /\ ret # _labels.v

====
